---- MODULE Spec2Model ----
(***************************************************************************)
(* Model of mysqlclusterbackup.py: the backup root as a directory tree,    *)
(* the directory scanners (find_incrementals, find_next_incr_directory),   *)
(* the backup state resolver (get_latest_backup) and one invocation of     *)
(* main() per operation, with the external xtrabackup runs as blocking     *)
(* calls whose outcome is chosen by the environment.                       *)
(*                                                                         *)
(* Strings are sequences of one-character strings, so that the regular     *)
(* expression match, int(), the f-string formatting and strptime/strftime  *)
(* are computed rather than assumed.                                       *)
(*                                                                         *)
(* Line 362 of the source reads `if len(incrementals == 0:` and does not   *)
(* parse.  The model closes the parenthesis after the argument,            *)
(* `len(incrementals) == 0`, which is how lines 390 and 393 use the same   *)
(* expression; `incrementals` is the dict find_incrementals returns.       *)
(***************************************************************************)
EXTENDS Integers, Sequences, FiniteSets, TLC

\* ---------------------------------------------------------------- bounds
\* Calendar days the clock can show (2025-07-01 .. 2025-07-NumDays).
NumDays == 2
\* Largest number of entries the first day's directory holds initially.
MaxInitEntries == 3
\* Number of xtrabackup --backup runs the model follows.
MaxRuns == 2
\* The same, for the runs that start from an empty backup root.
MaxRunsFromEmpty == 4

\* ---------------------------------------------------------------- text
DigitVal ==
  ("0" :> 0) @@ ("1" :> 1) @@ ("2" :> 2) @@ ("3" :> 3) @@ ("4" :> 4) @@
  ("5" :> 5) @@ ("6" :> 6) @@ ("7" :> 7) @@ ("8" :> 8) @@ ("9" :> 9)

DigitChar == <<"0", "1", "2", "3", "4", "5", "6", "7", "8", "9">>

IsDigits(s) == \A i \in 1..Len(s) : s[i] \in DOMAIN DigitVal

\* int(match.group(1))
RECURSIVE StrToInt(_)
StrToInt(s) ==
  IF s = <<>> THEN 0
  ELSE StrToInt(SubSeq(s, 1, Len(s) - 1)) * 10 + DigitVal[s[Len(s)]]

\* str(n) as an f-string renders it: decimal, no padding
RECURSIVE IntToStr(_)
IntToStr(n) ==
  IF n < 10 THEN <<DigitChar[n + 1]>>
  ELSE IntToStr(n \div 10) \o <<DigitChar[(n % 10) + 1]>>

\* zero-padded field of strftime (%Y: 4, %m and %d: 2)
RECURSIVE Pad(_, _)
Pad(s, width) == IF Len(s) >= width THEN s ELSE Pad(<<"0">> \o s, width)

INCR == <<"i", "n", "c", "r">>

EndsWith(s, suffix) ==
  /\ Len(s) >= Len(suffix)
  /\ SubSeq(s, Len(s) - Len(suffix) + 1, Len(s)) = suffix

\* re.match(r'incr(\d+)$', subdir) of find_incrementals
IncrMatch(name) ==
  /\ Len(name) >= 5
  /\ SubSeq(name, 1, 4) = INCR
  /\ IsDigits(SubSeq(name, 5, Len(name)))

\* pattern.match(dir_name) with r'^incr(\d+)$' of find_next_incr_directory
IncrPatternMatch(name) ==
  /\ Len(name) >= 5
  /\ SubSeq(name, 1, 4) = INCR
  /\ IsDigits(SubSeq(name, 5, Len(name)))

\* match.group(1) converted by int()
IncrNum(name) == StrToInt(SubSeq(name, 5, Len(name)))

\* ---------------------------------------------------------------- dates
IsLeap(y) == (y % 4 = 0 /\ y % 100 # 0) \/ y % 400 = 0

DaysInMonth(y, m) ==
  IF m = 2 THEN (IF IsLeap(y) THEN 29 ELSE 28)
  ELSE IF m \in {4, 6, 9, 11} THEN 30 ELSE 31

\* datetime.today() on the i-th day of the model
Day(i) == [y |-> 2025, m |-> 7, d |-> i]

\* strftime('%Y-%m-%d')
StrFTime(date) ==
  Pad(IntToStr(date.y), 4) \o <<"-">> \o Pad(IntToStr(date.m), 2)
    \o <<"-">> \o Pad(IntToStr(date.d), 2)

\* datetime.strptime(s, "%Y-%m-%d") succeeds: four digits, '-', a month of
\* one or two digits in 1..12, '-', a day of one or two digits, nothing
\* left over, and the date exists in the calendar.
StrPTimeOk(s) ==
  /\ Len(s) >= 8
  /\ IsDigits(SubSeq(s, 1, 4))
  /\ s[5] = "-"
  /\ \E k \in {7, 8} :
       /\ k < Len(s)
       /\ s[k] = "-"
       /\ LET ms == SubSeq(s, 6, k - 1)
              ds == SubSeq(s, k + 1, Len(s))
          IN /\ Len(ds) \in {1, 2}
             /\ IsDigits(ms)
             /\ IsDigits(ds)
             /\ StrToInt(SubSeq(s, 1, 4)) >= 1
             /\ StrToInt(ms) \in 1..12
             /\ StrToInt(ds) \in
                  1..DaysInMonth(StrToInt(SubSeq(s, 1, 4)), StrToInt(ms))

\* ---------------------------------------------------------------- filesystem
VARIABLES
  rootExists,   \* os.path.exists(config.root_backup_path)
  fs,           \* the entries directly under the backup root, by name
  today,        \* index of the day datetime.today() falls on
  pc,           \* where the current invocation of main() stands
  args,         \* parse_arguments(): the operation and the -d value
  state,        \* main's `state`: the dict get_latest_backup returned
  incrementals, \* prepare_backup's `incrementals`
  toolCalls,    \* the subprocess.run calls of this invocation, in order
  log,          \* the messages logged or printed by this invocation
  exitStatus,   \* the exit status of the process, -1 while it runs
  fsAtStart,    \* the entries under the root when the invocation began
  runsLeft,     \* the xtrabackup --backup runs the model still follows
  ret           \* the value returned by a direct call of a scanner

vars == <<rootExists, fs, today, pc, args, state, incrementals, toolCalls,
          log, exitStatus, fsAtStart, runsLeft, ret>>

\* Names of the subdirectories found inside a day's directory.
SubNames == {
  <<"i", "n", "c", "r", "1">>,
  <<"i", "n", "c", "r", "2">>,
  <<"i", "n", "c", "r", "1", "0">>,
  <<"i", "n", "c", "r", "0", "1">>,
  <<"i", "n", "c", "r", "X">>,
  <<"x", "i", "n", "c", "r", "1">> }

\* The subdirectory names the runs of main() start from.
MainNames == {
  <<"i", "n", "c", "r", "1">>,
  <<"i", "n", "c", "r", "2">>,
  <<"i", "n", "c", "r", "X">> }

\* Names of the regular files found inside a day's directory.
FileNames == { <<"i", "n", "c", "r", "2">> }

\* A directory name strptime accepts that strftime never produces.
UnpaddedDate == <<"2", "0", "2", "5", "-", "7", "-", "1">>

\* The default of the -d option (line 124).
DefaultDate ==
  <<"m", "y", "s", "q", "l", "c", "l", "u", "s", "t", "e", "r",
    "b", "a", "c", "k", "u", "p", ".", "c", "f", "g">>

DayNames == { StrFTime(Day(i)) : i \in 1..NumDays }

RootNames == DayNames \cup {UnpaddedDate}

\* Values of -d: the day directories, the unpadded form, the default, a
\* month that does not exist, a day that does not exist, a well-formed
\* date with no directory.
DateArgs ==
  RootNames \cup
  { DefaultDate,
    <<"2", "0", "2", "5", "-", "1", "3", "-", "0", "1">>,
    <<"2", "0", "2", "5", "-", "0", "2", "-", "3", "0">>,
    <<"2", "0", "2", "4", "-", "0", "2", "-", "2", "9">> }

Absent == [kind |-> "none", readable |-> FALSE, dirs |-> {}, files |-> {}]
RegularFile == [kind |-> "file", readable |-> TRUE, dirs |-> {}, files |-> {}]
EmptyDir == [kind |-> "dir", readable |-> TRUE, dirs |-> {}, files |-> {}]
UnreadableDir == [kind |-> "dir", readable |-> FALSE, dirs |-> {}, files |-> {}]

\* os.path.join(root, date) and os.path.join(root, date, name); None.
Path(date, name) == [kind |-> "path", date |-> date, name |-> name]
None == [kind |-> "None", date |-> <<>>, name |-> <<>>]
Omitted == [kind |-> "omitted", date |-> <<>>, name |-> <<>>]

Entry(p) ==
  IF rootExists /\ p.kind = "path" /\ p.date \in RootNames
  THEN fs[p.date] ELSE Absent

\* os.path.exists / os.path.isdir of a path directly under the root
Exists(p) == p.name = <<>> /\ Entry(p).kind # "none"
IsDir(p) == p.name = <<>> /\ Entry(p).kind = "dir"

\* The orders os.listdir may return the entries of a directory in.
RECURSIVE Listings(_)
Listings(S) ==
  IF S = {} THEN {<<>>}
  ELSE UNION { { <<x>> \o l : l \in Listings(S \ {x}) } : x \in S }

\* Every entry of a directory, as if os.path.isdir were not asked.
ItemsOf(p) == Entry(p).dirs \cup Entry(p).files

\* The entries of a directory that os.path.isdir accepts; the regular files
\* of a listing are dropped before its order is looked at (lines 209-210).
DirsOf(p) == Entry(p).dirs

\* s < t as Python compares two strings of digits
RECURSIVE LexLess(_, _)
LexLess(s, t) ==
  IF t = <<>> THEN FALSE
  ELSE IF s = <<>> THEN TRUE
  ELSE IF s[1] = t[1] THEN LexLess(Tail(s), Tail(t))
  ELSE DigitVal[s[1]] < DigitVal[t[1]]

\* Sorted with the names compared as strings: incr10 before incr2.
RECURSIVE SortedLexicographically(_)
SortedLexicographically(seq) ==
  IF seq = <<>> THEN <<>>
  ELSE LET rest == SortedLexicographically(SubSeq(seq, 1, Len(seq) - 1))
           x == seq[Len(seq)]
           k == Cardinality({ i \in 1..Len(rest) : ~LexLess(x, rest[i]) })
       IN SubSeq(rest, 1, k) \o <<x>> \o SubSeq(rest, k + 1, Len(rest))

\* list.sort(key=lambda x: x[0]): stable, ascending by the number
RECURSIVE Sorted(_)
Sorted(seq) ==
  IF seq = <<>> THEN <<>>
  ELSE LET rest == Sorted(SubSeq(seq, 1, Len(seq) - 1))
           x == seq[Len(seq)]
           k == Cardinality({ i \in 1..Len(rest) : IncrNum(rest[i]) <= IncrNum(x) })
       IN SubSeq(rest, 1, k) \o <<x>> \o SubSeq(rest, k + 1, Len(rest))

\* find_incrementals(directory_path), os.listdir answering `listing`:
\* `raised` names the exception that escapes it, `isNone` says it returned
\* None, `response` is the dict it returns otherwise.
find_incrementals(directory_path, listing) ==
  IF ~IsDir(directory_path)
  THEN [raised |-> "", isNone |-> TRUE,
        response |-> [base_backup |-> directory_path, incrementals |-> <<>>]]
  ELSE IF ~Entry(directory_path).readable
  THEN [raised |-> "PermissionError", isNone |-> FALSE,
        response |-> [base_backup |-> directory_path, incrementals |-> <<>>]]
  ELSE LET subdirs == SelectSeq(listing, LAMBDA d : d \in DirsOf(directory_path))
           incr_dirs == Sorted(SelectSeq(subdirs, IncrMatch))
       IN [raised |-> "", isNone |-> FALSE,
           response |->
             [base_backup |-> directory_path,
              incrementals |->
                [i \in 1..Len(incr_dirs) |->
                   Path(directory_path.date, incr_dirs[i])]]]

\* highest_number taken to be the number of incr directories
CountOfIncrDirs(incr_dirs) == Cardinality(incr_dirs)

\* highest_number taken one too high, so that a number is skipped
OneAboveHighest(incr_dirs) ==
  1 + CHOOSE n \in { IncrNum(d) : d \in incr_dirs } :
        \A d \in incr_dirs : IncrNum(d) <= n

\* max(incr_dirs, key=lambda x: x[1])[1]
highest_number(incr_dirs) ==
  CHOOSE n \in { IncrNum(d) : d \in incr_dirs } :
    \A d \in incr_dirs : IncrNum(d) <= n

\* find_next_incr_directory(backup_path); the listing order does not matter
\* to it, only which entries are directories.
find_next_incr_directory(backup_path) ==
  IF backup_path.kind # "path" \/ ~Exists(backup_path) THEN None
  ELSE IF Entry(backup_path).kind # "dir" \/ ~Entry(backup_path).readable
  THEN None
  ELSE LET incr_dirs == { d \in DirsOf(backup_path) : IncrPatternMatch(d) }
       IN IF incr_dirs = {}
          THEN Path(backup_path.date, INCR \o <<"1">>)
          ELSE Path(backup_path.date,
                    INCR \o IntToStr(highest_number(incr_dirs) + 1))

\* get_latest_backup(config)
get_latest_backup ==
  LET todays_backup == Path(StrFTime(Day(today)), <<>>)
      next_incremental == find_next_incr_directory(todays_backup)
  IN IF ~rootExists
     THEN [last_backup_today |-> FALSE, last_backup_incr |-> FALSE,
           next_backup_loc |-> None, base_backup_loc |-> None]
     ELSE IF Exists(todays_backup)
     THEN [last_backup_today |-> TRUE,
           last_backup_incr |->
             (next_incremental.kind = "path"
                /\ ~EndsWith(next_incremental.name, INCR \o <<"1">>)),
           next_backup_loc |-> next_incremental,
           base_backup_loc |-> todays_backup]
     ELSE [last_backup_today |-> FALSE, last_backup_incr |-> FALSE,
           next_backup_loc |-> todays_backup, base_backup_loc |-> None]

\* What find_next_incr_directory prints when os.listdir raises inside
\* get_latest_backup (lines 274-284).
ScanMessages ==
  LET todays_backup == Path(StrFTime(Day(today)), <<>>)
  IN IF ~Exists(todays_backup) THEN {}
     ELSE IF Entry(todays_backup).kind # "dir" THEN {"An error occurred"}
     ELSE IF ~Entry(todays_backup).readable THEN {"Permission denied"}
     ELSE {}

\* ---------------------------------------------------------------- initial state
\* response as get_latest_backup initialises it (lines 306-310)
NoState ==
  [last_backup_today |-> FALSE, last_backup_incr |-> FALSE,
   next_backup_loc |-> None, base_backup_loc |-> None]

NoScan ==
  [raised |-> "", isNone |-> TRUE,
   response |-> [base_backup |-> None, incrementals |-> <<>>]]

NoArgs == [op |-> "", date |-> <<>>]

NoRet ==
  [fn |-> "", arg |-> None, listing |-> <<>>, found |-> NoScan, next |-> None,
   changed |-> <<>>, again |-> FALSE]

\* The directories a day can hold when the model starts: subdirectories
\* named from `names`, regular files named from FileNames, at most
\* MaxInitEntries entries in all.
InitialDirs(names) ==
  { [kind |-> "dir", readable |-> TRUE, dirs |-> x[1], files |-> x[2]] :
      x \in { y \in (SUBSET names) \X (SUBSET FileNames) :
                /\ y[1] \cap y[2] = {}
                /\ Cardinality(y[1] \cup y[2]) <= MaxInitEntries } }

\* The tree a run starts from: the root may be missing; the first day's
\* entry may be missing, a regular file, an unreadable directory or a
\* directory with entries; later days have no entry yet.
InitialTree(names) ==
  /\ rootExists \in BOOLEAN
  /\ \E first \in InitialDirs(names) \cup {Absent, RegularFile, UnreadableDir},
        unpadded \in {Absent, EmptyDir} :
       fs = [n \in RootNames |->
               IF ~rootExists THEN Absent
               ELSE IF n = StrFTime(Day(1)) THEN first
               ELSE IF n = UnpaddedDate THEN unpadded
               ELSE Absent]

NoProcess ==
  /\ today = 1
  /\ pc = "idle"
  /\ args = NoArgs
  /\ state = NoState
  /\ incrementals = NoScan
  /\ toolCalls = <<>>
  /\ log = {}
  /\ exitStatus = -1
  /\ fsAtStart = fs
  /\ ret = NoRet

Init == InitialTree(MainNames) /\ NoProcess /\ runsLeft = MaxRuns

InitScan == InitialTree(SubNames) /\ NoProcess /\ runsLeft = 0

\* The backup root exists and holds nothing.
InitEmpty ==
  /\ rootExists = TRUE
  /\ fs = [n \in RootNames |-> Absent]
  /\ NoProcess
  /\ runsLeft = MaxRunsFromEmpty

\* ---------------------------------------------------------------- main()
Idle == pc \in {"idle", "done"}

\* subprocess.run([...]) of perform_backup (line 427)
BackupCall(backup_path) ==
  [flags |-> <<"--backup", "--compress">>, target_dir |-> backup_path,
   incremental_basedir |-> Omitted, result |-> "running"]

\* subprocess.run([...]) of perform_incremental_backup (line 407)
IncrementalCall(full_backup_path, incremental_backup_path) ==
  [flags |-> <<"--backup", "--compress">>,
   target_dir |-> incremental_backup_path,
   incremental_basedir |-> full_backup_path, result |-> "running"]

\* subprocess.run([...]) of prepare_backup: '--prepare' '--decompress' is
\* one string literal (no comma between them).
FinalPrepareCall(backup_base) ==
  [flags |-> <<"--prepare--decompress">>, target_dir |-> backup_base,
   incremental_basedir |-> Omitted, result |-> "running"]

ApplyLogsOnlyCall(backup_base) ==
  [flags |-> <<"--prepare--decompress", "--apply-logs-only">>,
   target_dir |-> backup_base, incremental_basedir |-> Omitted,
   result |-> "running"]

\* The tree once xtrabackup has created its target directory.
Created(target) ==
  IF target.kind # "path" \/ target.date \notin RootNames THEN fs
  ELSE IF target.name = <<>> THEN [fs EXCEPT ![target.date] = EmptyDir]
  ELSE [fs EXCEPT ![target.date].dirs = @ \cup {target.name}]

\* xtrabackup cannot make a directory where a regular file stands.
Creatable(target) ==
  IF target.kind # "path" \/ target.date \notin RootNames THEN TRUE
  ELSE IF target.name = <<>> THEN fs[target.date].kind = "none"
  ELSE /\ fs[target.date].kind = "dir"
       /\ target.name \notin fs[target.date].files

Begin(op, date) ==
  /\ Idle
  /\ args' = [op |-> op, date |-> date]
  /\ fsAtStart' = fs
  /\ UNCHANGED <<rootExists, today, ret>>

Finish(messages, status) ==
  /\ pc' = "done"
  /\ log' = messages
  /\ exitStatus' = status

\* Config(args.config) raises: FileNotFoundError and configparser.Error are
\* caught and main returns (lines 448-453); the ValueError of getint is not.
ConfigFails(op, date, error) ==
  /\ Begin(op, date)
  /\ Finish({error}, IF error = "ValueError" THEN 1 ELSE 0)
  /\ UNCHANGED <<fs, state, incrementals, runsLeft>>
  /\ toolCalls' = <<>>

\* -b up to the subprocess.run of perform_backup (lines 463-469, 424-428)
RunBackup ==
  /\ Begin("backup", DefaultDate)
  /\ runsLeft > 0
  /\ runsLeft' = runsLeft - 1
  /\ state' = get_latest_backup
  /\ incrementals' = NoScan
  /\ log' = ScanMessages \cup
            (IF get_latest_backup.last_backup_today
             THEN {"A full backup already exists for today"} ELSE {})
  /\ toolCalls' = <<BackupCall(get_latest_backup.next_backup_loc)>>
  /\ pc' = "perform_backup"
  /\ exitStatus' = -1
  /\ UNCHANGED fs

\* the subprocess.run of perform_backup returns or raises (lines 427-439)
BackupReturns(result, leftover) ==
  /\ pc = "perform_backup"
  /\ result = "ok" => Creatable(toolCalls[1].target_dir)
  /\ toolCalls' = [toolCalls EXCEPT ![1].result = result]
  /\ fs' = IF /\ result = "ok" \/ (result = "CalledProcessError" /\ leftover)
              /\ Creatable(toolCalls[1].target_dir)
           THEN Created(toolCalls[1].target_dir) ELSE fs
  /\ Finish(log \cup
              (CASE result = "ok" -> {"Backup completed successfully"}
                 [] result = "CalledProcessError" -> {"Backup failed!"}
                 [] OTHER -> {"An unexpected error occurred"}), 0)
  /\ UNCHANGED <<rootExists, today, args, state, incrementals, fsAtStart,
                 runsLeft, ret>>

\* -i up to the subprocess.run of perform_incremental_backup, or to the
\* refusal (lines 471-481, 403-408)
RunIncremental ==
  /\ Begin("incremental", DefaultDate)
  /\ runsLeft > 0
  /\ state' = get_latest_backup
  /\ incrementals' = NoScan
  /\ UNCHANGED fs
  /\ IF get_latest_backup.last_backup_today
          /\ get_latest_backup.base_backup_loc.kind = "path"
     THEN /\ toolCalls' = <<IncrementalCall(get_latest_backup.base_backup_loc,
                                            get_latest_backup.next_backup_loc)>>
          /\ runsLeft' = runsLeft - 1
          /\ log' = ScanMessages
          /\ pc' = "perform_incremental_backup"
          /\ exitStatus' = -1
     ELSE /\ toolCalls' = <<>>
          /\ UNCHANGED runsLeft
          /\ Finish(ScanMessages \cup {"there is no existing daily backup"}, 0)

\* the subprocess.run of perform_incremental_backup returns or raises
\* (lines 406-416)
IncrementalReturns(result, leftover) ==
  /\ pc = "perform_incremental_backup"
  /\ result = "ok" => Creatable(toolCalls[1].target_dir)
  /\ toolCalls' = [toolCalls EXCEPT ![1].result = result]
  /\ fs' = IF /\ result = "ok" \/ (result = "CalledProcessError" /\ leftover)
              /\ Creatable(toolCalls[1].target_dir)
           THEN Created(toolCalls[1].target_dir) ELSE fs
  /\ Finish(log \cup
              (CASE result = "ok" -> {}
                 [] result = "CalledProcessError" -> {"Incremental backup failed!"}
                 [] OTHER -> {"An unexpected error occurred"}), 0)
  /\ UNCHANGED <<rootExists, today, args, state, incrementals, fsAtStart,
                 runsLeft, ret>>

\* len(incrementals): the number of keys of the dict find_incrementals
\* returned (lines 362, 390, 393)
len_incrementals(found) == Cardinality(DOMAIN found.response)

\* -p up to the first subprocess.run of prepare_backup, or to the exit of
\* verify_backup_date (lines 483-487, 163-175, 352-382)
RunPrepare(date, listing) ==
  /\ Begin("prepare", date)
  /\ state' = NoState
  /\ UNCHANGED <<fs, runsLeft>>
  /\ IF ~StrPTimeOk(date)
     THEN \* sys.exit() with no argument: status 0
          /\ incrementals' = NoScan
          /\ toolCalls' = <<>>
          /\ Finish({"Invalid date format provided"}, 0)
     ELSE IF ~IsDir(Path(date, <<>>))
     THEN /\ incrementals' = NoScan
          /\ toolCalls' = <<>>
          /\ Finish({"A backup does not exist at the location provided"}, 1)
     ELSE LET found == find_incrementals(Path(date, <<>>), listing)
          IN /\ incrementals' = found
             /\ IF found.raised # ""
                THEN \* os.listdir raised; caught at line 498
                     /\ toolCalls' = <<>>
                     /\ Finish({"An unexpected error occurred"}, 0)
                ELSE /\ toolCalls' =
                          <<IF len_incrementals(found) = 0
                            THEN FinalPrepareCall(Path(date, <<>>))
                            ELSE ApplyLogsOnlyCall(Path(date, <<>>))>>
                     /\ log' = {}
                     /\ pc' = "prepare_backup"
                     /\ exitStatus' = -1

\* the subprocess.run of prepare_backup returns or raises.  On an exception
\* the handler logs its first line and then evaluates `e`, which is not
\* bound (the exception is bound to `w`): the NameError is caught at line
\* 498 and sys.exit(1) is not reached.  On success the loop of lines
\* 389-396 only logs the incrementals.
PrepareReturns(result) ==
  /\ pc = "prepare_backup"
  /\ toolCalls' = [toolCalls EXCEPT ![Len(toolCalls)].result = result]
  /\ IF result = "ok"
     THEN Finish(log, 0)
     ELSE Finish(log \cup {"Preparing the base directory failed.",
                           "An unexpected error occurred"}, 0)
  /\ UNCHANGED <<rootExists, fs, today, args, state, incrementals,
                 fsAtStart, runsLeft, ret>>

\* -r and -t only log a line (lines 491-496)
RunRestore ==
  /\ Begin("restore", DefaultDate)
  /\ Finish({}, 0)
  /\ toolCalls' = <<>>
  /\ UNCHANGED <<fs, state, incrementals, runsLeft>>

RunRotate ==
  /\ Begin("rotate", DefaultDate)
  /\ Finish({}, 0)
  /\ toolCalls' = <<>>
  /\ UNCHANGED <<fs, state, incrementals, runsLeft>>

\* midnight passes between two invocations
DayPasses ==
  /\ Idle
  /\ today < NumDays
  /\ today' = today + 1
  /\ pc' = "idle"
  /\ args' = NoArgs
  /\ state' = NoState
  /\ incrementals' = NoScan
  /\ toolCalls' = <<>>
  /\ log' = {}
  /\ exitStatus' = -1
  /\ fsAtStart' = fs
  /\ UNCHANGED <<rootExists, fs, runsLeft, ret>>

ToolResults == {"ok", "CalledProcessError", "OSError"}

Next ==
  \/ \E op \in {"backup", "prepare"},
        error \in {"FileNotFoundError", "configparser.Error", "ValueError"} :
       ConfigFails(op, DefaultDate, error)
  \/ RunBackup
  \/ \E result \in ToolResults, leftover \in BOOLEAN :
       BackupReturns(result, leftover)
  \/ RunIncremental
  \/ \E result \in ToolResults, leftover \in BOOLEAN :
       IncrementalReturns(result, leftover)
  \/ \E date \in DateArgs :
       \E listing \in Listings(DirsOf(Path(date, <<>>))) :
         RunPrepare(date, listing)
  \/ \E result \in ToolResults : PrepareReturns(result)
  \/ RunRestore
  \/ RunRotate
  \/ DayPasses

Spec == Init /\ [][Next]_vars

SpecEmpty == InitEmpty /\ [][Next]_vars

\* ---------------------------------------------------------------- the scanners called directly
CallFindIncrementals(directory_path, listing) ==
  /\ ret' = [fn |-> "find_incrementals", arg |-> directory_path,
             listing |-> listing,
             found |-> find_incrementals(directory_path, listing),
             next |-> None, changed |-> <<>>, again |-> FALSE]
  /\ UNCHANGED <<rootExists, fs, today, pc, args, state, incrementals,
                 toolCalls, log, exitStatus, fsAtStart, runsLeft>>

CallFindNextIncrDirectory(backup_path) ==
  /\ ret' = [fn |-> "find_next_incr_directory", arg |-> backup_path,
             listing |-> <<>>,
             found |-> NoScan, next |-> find_next_incr_directory(backup_path),
             changed |-> <<>>, again |-> FALSE]
  /\ UNCHANGED <<rootExists, fs, today, pc, args, state, incrementals,
                 toolCalls, log, exitStatus, fsAtStart, runsLeft>>

\* An entry that is not a directory named 'incr' and digits -- a directory
\* of another name, or a regular file of any name -- is added to the
\* directory last scanned, or removed from it.  os.listdir keeps the other
\* entries in the order it gave them in; a new directory shows up at
\* position pos + 1, before all of them or after all of them.
ForeignEntryChanges(name, asFile, pos) ==
  /\ ret.fn # ""
  /\ ret.changed = <<>>
  /\ fs = fsAtStart
  /\ IsDir(ret.arg)
  /\ asFile \/ ~IncrMatch(name)
  /\ name \notin (IF asFile THEN Entry(ret.arg).dirs ELSE Entry(ret.arg).files)
  /\ pos \in {0, Len(ret.listing)}
  /\ pos > 0 => (~asFile /\ name \notin Entry(ret.arg).dirs)
  /\ fs' = [fs EXCEPT ![ret.arg.date] =
              IF asFile
              THEN [@ EXCEPT !.files = IF name \in @ THEN @ \ {name}
                                       ELSE @ \cup {name}]
              ELSE [@ EXCEPT !.dirs = IF name \in @ THEN @ \ {name}
                                      ELSE @ \cup {name}]]
  /\ ret' = [ret EXCEPT
               !.changed = name,
               !.listing =
                 IF asFile THEN @
                 ELSE IF name \in Entry(ret.arg).dirs
                 THEN SelectSeq(@, LAMBDA d : d # name)
                 ELSE SubSeq(@, 1, pos) \o <<name>> \o SubSeq(@, pos + 1, Len(@))]
  /\ UNCHANGED <<rootExists, today, pc, args, state, incrementals,
                 toolCalls, log, exitStatus, fsAtStart, runsLeft>>

\* The function last called is called again on the directory that changed.
CallAgain ==
  /\ ret.changed # <<>>
  /\ ~ret.again
  /\ ret' = [ret EXCEPT
               !.again = TRUE,
               !.found = IF ret.fn = "find_incrementals"
                         THEN find_incrementals(ret.arg, ret.listing) ELSE NoScan,
               !.next = IF ret.fn = "find_next_incr_directory"
                        THEN find_next_incr_directory(ret.arg) ELSE None]
  /\ UNCHANGED <<rootExists, fs, today, pc, args, state, incrementals,
                 toolCalls, log, exitStatus, fsAtStart, runsLeft>>

NextScan ==
  \/ \E date \in DateArgs :
       \E listing \in Listings(DirsOf(Path(date, <<>>))) :
         CallFindIncrementals(Path(date, <<>>), listing)
  \/ \E date \in DateArgs : CallFindNextIncrDirectory(Path(date, <<>>))
  \/ \E name \in SubNames \cup FileNames, asFile \in BOOLEAN,
        pos \in 0..(MaxInitEntries + 1) :
       ForeignEntryChanges(name, asFile, pos)
  \/ CallAgain

SpecScan == InitScan /\ [][NextScan]_vars

\* ---------------------------------------------------------------- properties
Incr(n) == INCR \o IntToStr(n)

\* The names of a directory's subdirectories that are 'incr' and digits.
IncrDirs(entry) == { d \in entry.dirs : IncrMatch(d) }

\* The highest sequence number among them, 0 when there are none.
Highest(entry) ==
  IF IncrDirs(entry) = {} THEN 0
  ELSE CHOOSE n \in { IncrNum(d) : d \in IncrDirs(entry) } :
         \A d \in IncrDirs(entry) : IncrNum(d) <= n

TodayName == StrFTime(Day(today))

\* Today's entry under the root when the invocation began.
TodayAtStart == IF rootExists THEN fsAtStart[TodayName] ELSE Absent

\* The invocation got past the loading of the configuration.
ConfigLoaded ==
  /\ args.op # ""
  /\ log \cap {"FileNotFoundError", "configparser.Error", "ValueError"} = {}

ApplyLogsOnly(call) == \E i \in DOMAIN call.flags : call.flags[i] = "--apply-logs-only"

\* C1: a full-backup request made while a directory for today exists is
\* refused: the error is reported, xtrabackup is not run, and nothing under
\* the root is created.
C1_FullBackupRefused ==
  (args.op = "backup" /\ ConfigLoaded /\ TodayAtStart.kind = "dir")
    => /\ toolCalls = <<>>
       /\ fs = fsAtStart
       /\ "A full backup already exists for today" \in log

\* C2: an incremental-backup request made while no directory for today
\* exists is refused: xtrabackup is never run and the tree is unchanged.
C2_IncrementalRefused ==
  (args.op = "incremental" /\ ConfigLoaded /\ TodayAtStart.kind # "dir")
    => /\ toolCalls = <<>>
       /\ fs = fsAtStart

\* C3: with N >= 1 incrementals, a prepare whose steps all succeed has run
\* exactly N+1 steps: apply-logs-only on the base, apply-logs-only on each
\* incremental but the last in ascending order, and a final prepare on the
\* last.
C3_PrepareSequence ==
  LET found == incrementals.response.incrementals
      N == Len(found)
  IN (/\ args.op = "prepare"
      /\ pc = "done"
      /\ toolCalls # <<>>
      /\ \A i \in DOMAIN toolCalls : toolCalls[i].result = "ok"
      /\ N >= 1)
       => /\ Len(toolCalls) = N + 1
          /\ toolCalls[1].target_dir = Path(args.date, <<>>)
          /\ ApplyLogsOnly(toolCalls[1])
          /\ \A i \in 1..N :
               /\ toolCalls[i + 1].target_dir = found[i]
               /\ ApplyLogsOnly(toolCalls[i + 1]) <=> i < N

\* C4: with no incrementals, prepare runs exactly one step: a final prepare
\* on the base, without --apply-logs-only.
C4_PrepareBaseOnly ==
  (/\ args.op = "prepare"
   /\ toolCalls # <<>>
   /\ incrementals.response.incrementals = <<>>)
    => /\ Len(toolCalls) = 1
       /\ toolCalls[1].target_dir = Path(args.date, <<>>)
       /\ ~ApplyLogsOnly(toolCalls[1])

\* C5: when a prepare step fails, no later step is run in that invocation
\* and the failure is fatal and names the step: the process reports the
\* failed step and exits with a status other than zero.
C5_PrepareHaltsFatally ==
  \A i \in DOMAIN toolCalls :
    (args.op = "prepare" /\ toolCalls[i].result \notin {"ok", "running"})
      => /\ i = Len(toolCalls)
         /\ pc = "done"
         /\ "Preparing the base directory failed." \in log
         /\ exitStatus # 0

\* C6: for an existing, readable base directory find_next_incr_directory
\* returns base/incr(h+1), h the highest sequence number among the incrN
\* subdirectories and 0 when there are none.
C6_NextIncrDirectory ==
  (/\ ret.fn = "find_next_incr_directory"
   /\ IsDir(ret.arg)
   /\ Entry(ret.arg).readable)
    => ret.next = Path(ret.arg.date, Incr(Highest(Entry(ret.arg)) + 1))

\* C6 happens: incr1 and incr2 are there and incr3 is returned.
C6_Witness ==
  /\ ret.fn = "find_next_incr_directory"
  /\ IsDir(ret.arg)
  /\ {Incr(1), Incr(2)} \subseteq Entry(ret.arg).dirs
  /\ Highest(Entry(ret.arg)) = 2
  /\ ret.next = Path(ret.arg.date, Incr(3))

\* The position of a name in a listing.
IndexIn(listing, name) == CHOOSE i \in DOMAIN listing : listing[i] = name

\* find_incrementals returned the dict, and its list holds exactly the incrN
\* subdirectories of the base.
ReturnsTheIncrDirs ==
  /\ ret.found.raised = ""
  /\ ~ret.found.isNone
  /\ ret.found.response.base_backup = ret.arg
  /\ Len(ret.found.response.incrementals) = Cardinality(IncrDirs(Entry(ret.arg)))
  /\ { ret.found.response.incrementals[i] :
         i \in DOMAIN ret.found.response.incrementals }
       = { Path(ret.arg.date, d) : d \in IncrDirs(Entry(ret.arg)) }

C8_ResolverReport ==
  (args.op \in {"backup", "incremental"} /\ ConfigLoaded /\ rootExists)
    => IF TodayAtStart.kind # "dir"
       THEN /\ ~state.last_backup_today
            /\ state.next_backup_loc = Path(TodayName, <<>>)
       ELSE /\ state.last_backup_today
            /\ TodayAtStart.readable =>
                 state.next_backup_loc =
                   Path(TodayName, Incr(Highest(TodayAtStart) + 1))

\* What the process logs or prints on a fatal path.
FatalMessages ==
  { "FileNotFoundError", "configparser.Error", "ValueError",
    "Invalid date format provided",
    "A backup does not exist at the location provided",
    "A full backup already exists for today",
    "there is no existing daily backup",
    "Permission denied", "An error occurred",
    "Backup failed!", "Incremental backup failed!",
    "Preparing the base directory failed.",
    "An unexpected error occurred" }

\* C9: the process exits with a status other than zero on every fatal path
\* and with zero only when the operation fully succeeded.
C9_ExitStatus ==
  pc = "done" =>
    (exitStatus = 0 <=>
       /\ log \cap FatalMessages = {}
       /\ \A i \in DOMAIN toolCalls : toolCalls[i].result = "ok")

\* C10: when the backup root does not exist, a full or incremental backup
\* request ends in a reported error and xtrabackup is never run.
C10_MissingRootIsFatal ==
  (args.op \in {"backup", "incremental"} /\ ConfigLoaded /\ ~rootExists)
    => /\ toolCalls = <<>>
       /\ pc = "done" => log # {}

\* C11: when today's base exists but cannot be scanned for incrementals, no
\* backup is started in that invocation: xtrabackup is run neither with
\* target incr1 nor with an undefined target.
C11_ScanErrorIsFatal ==
  (/\ args.op \in {"backup", "incremental"}
   /\ ConfigLoaded
   /\ TodayAtStart.kind = "dir"
   /\ ~TodayAtStart.readable)
    => toolCalls = <<>>

\* What the rotate branch of main classifies (lines 494-496): it logs
\* "Rotating backups" and ends; no date is put in retain, none in delete.
rotate_plan == [retain |-> {}, delete |-> {}]

\* The dates that have a base snapshot under the root.
BaseDates == { n \in DayNames : rootExists /\ fs[n].kind = "dir" }

\* C12: a rotate invocation partitions the dates of the base snapshots into
\* retain and delete: every date is in exactly one of the two, so that each
\* date no retention rule selects is in delete.
C12_RotatePartitions ==
  (args.op = "rotate" /\ ConfigLoaded /\ pc = "done")
    => /\ rotate_plan.retain \cap rotate_plan.delete = {}
       /\ rotate_plan.retain \cup rotate_plan.delete = BaseDates

\* C13: starting from an empty backup root, after any sequence of full and
\* incremental backup invocations, over any number of days and with every
\* run of xtrabackup succeeding or failing, the sequence numbers of the
\* incrementals of every lineage are 1..N: no gap and no number twice.
C13_ContiguousNumbers ==
  \A d \in RootNames :
    fs[d].kind = "dir" =>
      { IncrNum(x) : x \in IncrDirs(fs[d]) } = 1..Cardinality(IncrDirs(fs[d]))

\* C13 happens: a lineage has grown to incr1, incr2, incr3, one invocation
\* after the other.
C13_Witness ==
  /\ pc = "done"
  /\ args.op = "incremental"
  /\ fs[TodayName].kind = "dir"
  /\ IncrDirs(fs[TodayName]) = {Incr(1), Incr(2), Incr(3)}
  /\ fsAtStart[TodayName].dirs = {Incr(1), Incr(2)}

\* C14: every incremental is chained off the snapshot with the highest
\* sequence number so far: the run that creates incrK is given incr(K-1) as
\* its --incremental-basedir when K >= 2, and the day's base when K = 1.
C14_ChainedOffHighest ==
  \A i \in DOMAIN toolCalls :
    (/\ args.op = "incremental"
     /\ toolCalls[i].target_dir.kind = "path"
     /\ IncrMatch(toolCalls[i].target_dir.name))
      => LET K == IncrNum(toolCalls[i].target_dir.name)
         IN toolCalls[i].incremental_basedir =
              IF K = 1 THEN Path(TodayName, <<>>)
              ELSE Path(TodayName, Incr(K - 1))

\* C15: in every result of get_latest_backup, next_backup_loc is the path of
\* the next incremental when last_backup_incr is True, and the location of
\* the next full backup, root/<today>, otherwise.
C15_NextBackupLoc ==
  (args.op \in {"backup", "incremental"} /\ ConfigLoaded)
    => state.next_backup_loc =
         IF state.last_backup_incr
         THEN Path(TodayName, Incr(Highest(TodayAtStart) + 1))
         ELSE Path(TodayName, <<>>)

\* A well-formed YYYY-MM-DD date: four digits, two digits, two digits,
\* hyphens between them, and a day that exists in the calendar.
WellFormedDate(s) ==
  /\ Len(s) = 10
  /\ IsDigits(SubSeq(s, 1, 4)) /\ s[5] = "-"
  /\ IsDigits(SubSeq(s, 6, 7)) /\ s[8] = "-"
  /\ IsDigits(SubSeq(s, 9, 10))
  /\ StrToInt(SubSeq(s, 6, 7)) \in 1..12
  /\ StrToInt(SubSeq(s, 9, 10)) \in
       1..DaysInMonth(StrToInt(SubSeq(s, 1, 4)), StrToInt(SubSeq(s, 6, 7)))

\* C16: prepare runs xtrabackup only for a date argument that is a
\* well-formed, calendar-valid YYYY-MM-DD date whose directory exists under
\* the root; for a malformed date, or a date without a directory, no prepare
\* step is run.
C16_PrepareOnlyForValidDate ==
  (args.op = "prepare" /\ toolCalls # <<>>)
    => /\ WellFormedDate(args.date)
       /\ rootExists
       /\ fsAtStart[args.date].kind = "dir"

\* C17: entries of a base directory that are not directories named 'incr'
\* and digits are ignored without error: when such an entry (a directory of
\* another name, a regular file) is added or removed, find_incrementals
\* returns the same list as before and find_next_incr_directory the same
\* path, and no error escapes.
C17_ForeignEntriesIgnored ==
  [][ (ret'.again /\ ~ret.again /\ Entry(ret.arg).readable)
        => /\ ret'.found = ret.found
           /\ ret'.found.raised = ""
           /\ ret'.next = ret.next ]_vars

\* C17 happens: incr1 and incr2 were returned, the directory incrX has been
\* added and the call made again.
C17_Witness ==
  /\ ret.fn = "find_incrementals"
  /\ ret.again
  /\ ret.changed = <<"i", "n", "c", "r", "X">>
  /\ ret.changed \in Entry(ret.arg).dirs \ fsAtStart[ret.arg.date].dirs
  /\ Len(ret.found.response.incrementals) = 2

\* The invocation that just ended ran xtrabackup --backup, the run failed,
\* and its target directory has been left behind.
LeftBehind ==
  /\ pc = "done"
  /\ args.op \in {"backup", "incremental"}
  /\ toolCalls # <<>>
  /\ toolCalls[1].result = "CalledProcessError"
  /\ fs # fsAtStart

\* C18: the target directory a failed backup run leaves behind is treated as
\* a failed partial snapshot by the invocation that follows it on the same
\* day: an incremental request does not take it as today's base, the next
\* incremental location is computed as if it were not there, and a prepare
\* of the lineage does not list it.
C18_PartialSnapshotRejected ==
  [][ (LeftBehind /\ today' = today)
        => LET partial == toolCalls[1].target_dir
           IN /\ (args'.op = "incremental" /\ partial.name = <<>>)
                   => toolCalls' = <<>>
              /\ (args'.op = "incremental" /\ partial.name # <<>>
                    /\ toolCalls' # <<>>)
                   => toolCalls'[1].target_dir = partial
              /\ (args'.op = "prepare" /\ partial.name # <<>>)
                   => \A i \in DOMAIN incrementals'.response.incrementals :
                        incrementals'.response.incrementals[i] # partial ]_vars

\* What was at a path under the root when the invocation began: "none",
\* "file" or "dir".
KindAtStart(p) ==
  IF ~rootExists THEN "none"
  ELSE IF p.name = <<>> THEN fsAtStart[p.date].kind
  ELSE IF fsAtStart[p.date].kind # "dir" THEN "none"
  ELSE IF p.name \in fsAtStart[p.date].dirs THEN "dir"
  ELSE IF p.name \in fsAtStart[p.date].files THEN "file"
  ELSE "none"

\* C19 as stated: the target path handed to xtrabackup for a full or an
\* incremental backup names nothing that exists on the filesystem at the
\* moment it is computed.
C19_TargetDoesNotExist ==
  (/\ args.op \in {"backup", "incremental"}
   /\ toolCalls # <<>>
   /\ toolCalls[1].target_dir.kind = "path")
    => KindAtStart(toolCalls[1].target_dir) = "none"

\* C19 amended: the target path handed to xtrabackup for a full or an
\* incremental backup is never an existing directory at the moment it is
\* computed -- root/<today> is used only when nothing of that name exists,
\* and <today>/incr(h+1) is the name of no directory, though a regular file
\* may bear it -- so a run never writes into an existing base or
\* incremental snapshot.
C19_TargetIsNoDirectory ==
  (/\ args.op \in {"backup", "incremental"}
   /\ toolCalls # <<>>
   /\ toolCalls[1].target_dir.kind = "path")
    => /\ KindAtStart(toolCalls[1].target_dir) # "dir"
       /\ toolCalls[1].target_dir.name = <<>>
            => KindAtStart(toolCalls[1].target_dir) = "none"

\* C19 happens: incr1 and incr2 exist and the run is handed incr3, which
\* does not.
C19_Witness ==
  /\ args.op = "incremental"
  /\ pc = "perform_incremental_backup"
  /\ {Incr(1), Incr(2)} \subseteq TodayAtStart.dirs
  /\ toolCalls[1].target_dir = Path(TodayName, Incr(3))
  /\ KindAtStart(toolCalls[1].target_dir) = "none"

====
